---- MODULE Spec2Model ----
(***************************************************************************)
(* Model of aws_toolbelt/main.py: the Textual console that browses ECS     *)
(* clusters and services, shows the latest CloudWatch log records of a     *)
(* service and forces a redeployment.                                      *)
(*                                                                         *)
(* A Python string is a TLA+ string; a fully-qualified resource name is a  *)
(* sequence of pieces, where the piece "/" is the slash character and any  *)
(* other piece is a slash-free run of characters.  A boto3 client is       *)
(* modelled by the region it is bound to.  Every handler of the App runs   *)
(* to completion on the single UI loop, so one action is one handler run;  *)
(* input events wait in the message queue `pending` until they are handled.*)
(***************************************************************************)
EXTENDS Integers, Sequences, FiniteSets, TLC

VARIABLES
    ecs_client,        \* region the module-level ecs_client is bound to
    logs_client,       \* region the module-level logs_client is bound to
    title,             \* App.title
    clusters,          \* children of ListView #clusters
    services,          \* children of ListView #services
    selected_cluster,  \* App.selected_cluster
    selected_service,  \* App.selected_service
    red_btn,           \* RedeploytBtn.cluster / RedeploytBtn.service
    logs,              \* lines of the Log widget #logs
    pending,           \* UI events posted and not yet handled
    alive,             \* FALSE once an exception escaped a handler
    last,              \* the event handled last and how its handler ended
    trace,             \* the API requests the last handler issued
    caught,            \* the request whose exception the last handler caught, or ""
    task_definition,   \* container definitions read by the last get_log_group_name
    log_group_name,    \* load_logs' log_group_name in the last handler, "" if none
    listing            \* the names a listing request returned to the last handler

vars == <<ecs_client, logs_client, title, clusters, services, selected_cluster,
          selected_service, red_btn, logs, pending, alive, last, trace, caught,
          task_definition, log_group_name, listing>>

----------------------------------------------------------------------------
(* Bounds of the model *)

\* events that may wait in the message queue
MaxPending == 2

\* container definitions of a task definition drawn for the resolver
MaxDefs == 4

\* pieces of a resource name drawn for the identifier derivation
MaxPieces == 5

----------------------------------------------------------------------------
(* Python values *)

\* Python's None, for the two reactive attributes
None == "<None>"

\* truthiness of an optional string: None and "" are falsy
Truthy(s) == s # None /\ s # ""

DefaultRegion == "us-east-1"

\* the ids offered by the region Select
RegionIds == {"us-east-1", "eu-west-1"}

\* str.split("/"): the slash-free runs between the slashes
RECURSIVE Split(_)
Split(s) ==
    IF s = <<>> THEN <<"">>
    ELSE LET rest == Split(Tail(s)) IN
         IF Head(s) = "/" THEN <<"">> \o rest
         ELSE <<Head(s) \o Head(rest)>> \o Tail(rest)

\* a mis-indexed derivation: the first path segment instead of the last
IdentFirst(arn) == Split(arn)[1]

\* arn.split("/")[-1]
Ident(arn) == Split(arn)[Len(Split(arn))]

----------------------------------------------------------------------------
(* The cloud account the clients talk to: fixed content per region *)

\* ecs list_clusters()["clusterArns"]
ClusterArns(region) ==
    CASE region = "us-east-1" ->
            << <<"arn:aws:ecs:us-east-1:1:cluster", "/", "api">>,
               <<"arn:aws:ecs:us-east-1:1:cluster", "/", "batch">> >>
      [] region = "eu-west-1" ->
            << <<"arn:aws:ecs:eu-west-1:1:cluster", "/", "web">> >>
      [] OTHER -> << >>

\* ecs list_services(cluster=c)["serviceArns"]
ServiceArns(region, cluster) ==
    CASE region = "us-east-1" /\ cluster = "api" ->
            << <<"arn:aws:ecs:us-east-1:1:service", "/", "api", "/", "front">>,
               <<"arn:aws:ecs:us-east-1:1:service", "/", "api", "/", "worker">> >>
      [] region = "eu-west-1" /\ cluster = "web" ->
            << <<"arn:aws:ecs:eu-west-1:1:service", "/", "web", "/", "site">>,
               <<"arn:aws:ecs:eu-west-1:1:service", "/", "web", "/", "job">> >>
      [] OTHER -> << >>

SeqRange(s) == {s[i] : i \in 1..Len(s)}

ClusterNames(region) == {Ident(a) : a \in SeqRange(ClusterArns(region))}

ServiceNames(region, cluster) ==
    {Ident(a) : a \in SeqRange(ServiceArns(region, cluster))}

\* the cluster exists in the region (else ClusterNotFoundException)
ClusterExists(region, cluster) == cluster \in ClusterNames(region)

\* the service exists in that cluster of the region
ServiceExists(region, cluster, service) ==
    /\ ClusterExists(region, cluster)
    /\ service \in ServiceNames(region, cluster)

NoLogConfig == [has |-> FALSE, logDriver |-> "", group |-> ""]
LogConfig(driver, group) == [has |-> TRUE, logDriver |-> driver, group |-> group]

\* describe_task_definition(...)["taskDefinition"]["containerDefinitions"]
ContainerDefinitions(region, cluster, service) ==
    CASE service = "front" ->
            << NoLogConfig,
               LogConfig("json-file", ""),
               LogConfig("awslogs", "/ecs/front"),
               LogConfig("awslogs", "/ecs/front-sidecar") >>
      [] service = "worker" -> << NoLogConfig, LogConfig("json-file", "") >>
      [] service = "site" -> << LogConfig("awslogs", "/ecs/site") >>
      [] OTHER -> << >>

\* the streams of a log group, most recent event first
LogStreams(region, group) ==
    CASE region = "us-east-1" /\ group = "/ecs/front" -> <<"front/2", "front/1">>
      [] region = "us-east-1" /\ group = "/ecs/front-sidecar" -> <<"sidecar/1">>
      [] OTHER -> << >>

\* the log group exists in the region (else ResourceNotFoundException)
LogGroupExists(region, group) ==
    \/ region = "us-east-1" /\ group \in {"/ecs/front", "/ecs/front-sidecar"}
    \/ region = "eu-west-1" /\ group = "/ecs/site"

\* the decimal digits, for numbering messages
Digits == <<"0", "1", "2", "3", "4", "5", "6", "7", "8", "9">>

\* the text of the i-th message of a long stream
Msg(i) ==
    "line " \o Digits[((i \div 100) % 10) + 1] \o Digits[((i \div 10) % 10) + 1]
            \o Digits[(i % 10) + 1]

\* events held by the busiest stream: more than one get_log_events page
LongStream == 102

\* the messages of a stream, oldest first
StreamEvents(stream) ==
    CASE stream = "front/2" -> [i \in 1..LongStream |-> Msg(i)]
      [] stream = "front/1" -> <<"old boot">>
      [] stream = "sidecar/1" -> <<"sidecar up">>
      [] OTHER -> << >>

----------------------------------------------------------------------------
(* Widgets, events and API requests *)

\* limit= of describe_log_streams
StreamLimit == 1

\* limit= of get_log_events
EventLimit == 100

\* a child of a ListView: cls is the Python class of the item
Item(cls, name) == [cls |-> cls, name |-> name]

ECSClusterItem(cluster_name) == Item("ECSClusterItem", cluster_name)

ECSServiceItem(service_name) == Item("ECSServiceItem", service_name)

\* a posted UI event; behind: the region of the region change that was still
\* waiting to be handled when this one was posted, "" when there was none
Event(kind, cls, val, behind) ==
    [kind |-> kind, cls |-> cls, val |-> val, behind |-> behind]

\* one request sent through a client bound to `region`
Call(op, region, cluster, service, group) ==
    [op |-> op, region |-> region, cluster |-> cluster, service |-> service,
     group |-> group]

\* the first n elements of s
FirstN(s, n) == SubSeq(s, 1, IF Len(s) < n THEN Len(s) ELSE n)

\* the last n elements of s
LastN(s, n) == SubSeq(s, IF Len(s) < n THEN 1 ELSE Len(s) - n + 1, Len(s))

----------------------------------------------------------------------------
(* The methods of the App, as functions of the state they read.  Each       *)
(* returns the new value of what it writes, the requests it issued and      *)
(* whether an exception escaped it.  The `ok` arguments say whether the     *)
(* cloud answers the request or the client raises.                          *)

\* a reload that appends to the list without clearing it
LoadClustersKeep(client, old, ok) ==
    LET arns == ClusterArns(client)
        call == Call("list_clusters", client, "", "", "") IN
    IF ~ok
    THEN [clusters |-> old, trace |-> <<call>>, raised |-> TRUE, listing |-> << >>]
    ELSE [clusters |-> old \o [i \in 1..Len(arns) |-> ECSClusterItem(Ident(arns[i]))],
          trace |-> <<call>>, raised |-> FALSE, listing |-> arns]

\* lines 88-90: clear(), then one ECSClusterItem per name of the listing
ClusterItems(arns) == [i \in 1..Len(arns) |-> ECSClusterItem(Ident(arns[i]))]

\* lines 98-100: clear(), then one ECSServiceItem per name of the listing
ServiceItems(arns) == [i \in 1..Len(arns) |-> ECSServiceItem(Ident(arns[i]))]

\* App.load_clusters
LoadClusters(client, old, ok) ==
    LET arns == ClusterArns(client)
        call == Call("list_clusters", client, "", "", "") IN
    IF ~ok
    THEN [clusters |-> old, trace |-> <<call>>, raised |-> TRUE, listing |-> << >>]
    ELSE [clusters |-> ClusterItems(arns), trace |-> <<call>>, raised |-> FALSE,
          listing |-> arns]

\* App.load_services; the request fails when the cluster is unknown to the region
LoadServices(client, cluster, old, ok) ==
    LET arns == ServiceArns(client, cluster)
        call == Call("list_services", client, cluster, "", "") IN
    IF ~Truthy(cluster)
    THEN [services |-> old, trace |-> <<>>, raised |-> FALSE, listing |-> << >>]
    ELSE IF ~ok \/ ~ClusterExists(client, cluster)
    THEN [services |-> old, trace |-> <<call>>, raised |-> TRUE, listing |-> << >>]
    ELSE [services |-> ServiceItems(arns), trace |-> <<call>>, raised |-> FALSE,
          listing |-> arns]

\* rebinding that assigns function-local names: the module handles stay as they were
BindClientsLocal(ecs, lgs, val, bind) ==
    [ecs |-> ecs, logs |-> lgs, raised |-> bind # "ok"]

\* rebinding that replaces the ecs handle and forgets the logs handle
BindClientsEcsOnly(ecs, lgs, val, bind) ==
    CASE bind = "ecs_raises" -> [ecs |-> ecs, logs |-> lgs, raised |-> TRUE]
      [] bind = "logs_raises" -> [ecs |-> val, logs |-> lgs, raised |-> TRUE]
      [] OTHER -> [ecs |-> val, logs |-> lgs, raised |-> FALSE]

\* the two boto3.client(...) assignments of select_changed; bind names the
\* constructor that raises, if one does
BindClients(ecs, lgs, val, bind) ==
    CASE bind = "ecs_raises" -> [ecs |-> ecs, logs |-> lgs, raised |-> TRUE]
      [] bind = "logs_raises" -> [ecs |-> val, logs |-> lgs, raised |-> TRUE]
      [] OTHER -> [ecs |-> val, logs |-> val, raised |-> FALSE]

\* a scan that keeps the last matching container instead of returning at the first
RECURSIVE FindLogGroupLast(_)
FindLogGroupLast(defs) ==
    IF defs = <<>> THEN ""
    ELSE IF defs[Len(defs)].has /\ defs[Len(defs)].logDriver = "awslogs"
    THEN defs[Len(defs)].group
    ELSE FindLogGroupLast(SubSeq(defs, 1, Len(defs) - 1))

\* the loop of get_log_group_name over the container definitions
RECURSIVE FindLogGroup(_)
FindLogGroup(defs) ==
    IF defs = <<>> THEN ""
    ELSE IF Head(defs).has /\ Head(defs).logDriver = "awslogs" THEN Head(defs).group
    ELSE FindLogGroup(Tail(defs))

\* App.get_log_group_name; a service the cluster does not hold comes back as an
\* empty "services" list (or an error), and ["services"][0] raises
GetLogGroupName(client, cluster_name, service_name, o) ==
    LET c1 == Call("describe_services", client, cluster_name, service_name, "")
        c2 == Call("describe_task_definition", client, cluster_name, service_name, "") IN
    IF ~o.ds \/ ~ServiceExists(client, cluster_name, service_name)
    THEN [group |-> "", defs |-> << >>, trace |-> <<c1>>, raised |-> TRUE]
    ELSE IF ~o.dtd
    THEN [group |-> "", defs |-> << >>, trace |-> <<c1, c2>>, raised |-> TRUE]
    ELSE [group |-> FindLogGroup(ContainerDefinitions(client, cluster_name, service_name)),
          defs |-> ContainerDefinitions(client, cluster_name, service_name),
          trace |-> <<c1, c2>>, raised |-> FALSE]

\* an except clause that writes the message and raises again
FetchLogsReraise(lclient, group, o) ==
    LET c3 == Call("describe_log_streams", lclient, "", "", group)
        c4 == Call("get_log_events", lclient, "", "", group)
        log_streams == FirstN(LogStreams(lclient, group), StreamLimit) IN
    IF ~o.dls \/ ~LogGroupExists(lclient, group)
    THEN [logs |-> <<"Error fetching logs: describe_log_streams">>, trace |-> <<c3>>,
          caught |-> "describe_log_streams", raised |-> TRUE]
    ELSE IF log_streams = <<>>
    THEN [logs |-> <<"No log streams found for this service.">>, trace |-> <<c3>>,
          caught |-> "", raised |-> FALSE]
    ELSE IF ~o.gle
    THEN [logs |-> <<"Error fetching logs: get_log_events">>, trace |-> <<c3, c4>>,
          caught |-> "get_log_events", raised |-> TRUE]
    ELSE [logs |-> LastN(StreamEvents(log_streams[1]), EventLimit), trace |-> <<c3, c4>>,
          caught |-> "", raised |-> FALSE]

\* a fetch that indexes log_streams[0] without testing the list
FetchLogsNoEmptyCheck(lclient, group, o) ==
    LET c3 == Call("describe_log_streams", lclient, "", "", group)
        c4 == Call("get_log_events", lclient, "", "", group)
        log_streams == FirstN(LogStreams(lclient, group), StreamLimit) IN
    IF ~o.dls \/ ~LogGroupExists(lclient, group)
    THEN [logs |-> <<"Error fetching logs: describe_log_streams">>, trace |-> <<c3>>,
          caught |-> "describe_log_streams", raised |-> FALSE]
    ELSE IF log_streams = <<>>
    THEN [logs |-> <<"Error fetching logs: list index out of range">>, trace |-> <<c3>>,
          caught |-> "log_streams[0]", raised |-> FALSE]
    ELSE IF ~o.gle
    THEN [logs |-> <<"Error fetching logs: get_log_events">>, trace |-> <<c3, c4>>,
          caught |-> "get_log_events", raised |-> FALSE]
    ELSE [logs |-> LastN(StreamEvents(log_streams[1]), EventLimit), trace |-> <<c3, c4>>,
          caught |-> "", raised |-> FALSE]

\* a fetch that reads the stream from its head (startFromHead=True)
FetchLogsFromHead(lclient, group, o) ==
    LET c3 == Call("describe_log_streams", lclient, "", "", group)
        c4 == Call("get_log_events", lclient, "", "", group)
        log_streams == FirstN(LogStreams(lclient, group), StreamLimit) IN
    IF ~o.dls \/ ~LogGroupExists(lclient, group)
    THEN [logs |-> <<"Error fetching logs: describe_log_streams">>, trace |-> <<c3>>,
          caught |-> "describe_log_streams", raised |-> FALSE]
    ELSE IF log_streams = <<>>
    THEN [logs |-> <<"No log streams found for this service.">>, trace |-> <<c3>>,
          caught |-> "", raised |-> FALSE]
    ELSE IF ~o.gle
    THEN [logs |-> <<"Error fetching logs: get_log_events">>, trace |-> <<c3, c4>>,
          caught |-> "get_log_events", raised |-> FALSE]
    ELSE [logs |-> FirstN(StreamEvents(log_streams[1]), EventLimit), trace |-> <<c3, c4>>,
          caught |-> "", raised |-> FALSE]

\* the try block of load_logs: stream listing and record retrieval
FetchLogs(lclient, group, o) ==
    LET c3 == Call("describe_log_streams", lclient, "", "", group)
        c4 == Call("get_log_events", lclient, "", "", group)
        log_streams == FirstN(LogStreams(lclient, group), StreamLimit) IN
    IF ~o.dls \/ ~LogGroupExists(lclient, group)
    THEN [logs |-> <<"Error fetching logs: describe_log_streams">>, trace |-> <<c3>>,
          caught |-> "describe_log_streams", raised |-> FALSE]
    ELSE IF log_streams = <<>>
    THEN [logs |-> <<"No log streams found for this service.">>, trace |-> <<c3>>,
          caught |-> "", raised |-> FALSE]
    ELSE IF ~o.gle
    THEN [logs |-> <<"Error fetching logs: get_log_events">>, trace |-> <<c3, c4>>,
          caught |-> "get_log_events", raised |-> FALSE]
    ELSE [logs |-> LastN(StreamEvents(log_streams[1]), EventLimit), trace |-> <<c3, c4>>,
          caught |-> "", raised |-> FALSE]

\* load_logs without the return after the "Could not find" message
LoadLogsNoReturn(client, lclient, cluster, service, old, o) ==
    LET g == GetLogGroupName(client, cluster, service, o)
        f == FetchLogs(lclient, g.group, o)
        said == IF g.group = "" THEN <<"Could not find log group for this service.">>
                ELSE << >> IN
    IF ~(Truthy(cluster) /\ Truthy(service))
    THEN [logs |-> old, trace |-> <<>>, caught |-> "", raised |-> FALSE,
          defs |-> << >>, group |-> ""]
    ELSE IF g.raised
    THEN [logs |-> <<>>, trace |-> g.trace, caught |-> "", raised |-> TRUE,
          defs |-> << >>, group |-> ""]
    ELSE [logs |-> said \o f.logs, trace |-> g.trace \o f.trace, caught |-> f.caught,
          raised |-> f.raised, defs |-> g.defs, group |-> g.group]

\* App.load_logs
LoadLogs(client, lclient, cluster, service, old, o) ==
    LET g == GetLogGroupName(client, cluster, service, o)
        f == FetchLogs(lclient, g.group, o) IN
    IF ~(Truthy(cluster) /\ Truthy(service))
    THEN [logs |-> old, trace |-> <<>>, caught |-> "", raised |-> FALSE,
          defs |-> << >>, group |-> ""]
    ELSE IF g.raised
    THEN [logs |-> <<>>, trace |-> g.trace, caught |-> "", raised |-> TRUE,
          defs |-> << >>, group |-> ""]
    ELSE IF g.group = ""
    THEN [logs |-> <<"Could not find log group for this service.">>,
          trace |-> g.trace, caught |-> "", raised |-> FALSE,
          defs |-> g.defs, group |-> ""]
    ELSE [logs |-> f.logs, trace |-> g.trace \o f.trace, caught |-> f.caught,
          raised |-> f.raised, defs |-> g.defs, group |-> g.group]

\* RedeploytBtn.on_click; the service must exist for the request to succeed
Redeploy(client, btn, ok) ==
    [trace |-> <<Call("update_service", client, btn.cluster, btn.service, "")>>,
     raised |-> ~ok \/ ~ServiceExists(client, btn.cluster, btn.service)]

\* the answers the cloud may give to the requests of one log load: all four
\* requests succeed, or one of them raises (those after it are not reached)
LogOracles ==
    { o \in [ds : BOOLEAN, dtd : BOOLEAN, dls : BOOLEAN, gle : BOOLEAN] :
        Cardinality({f \in {"ds", "dtd", "dls", "gle"} : ~o[f]}) <= 1 }

----------------------------------------------------------------------------
(* State after construction: the module-level clients are bound to the      *)
(* default region, compose() has built the widgets, on_mount is due.        *)

NoEvent == Event("none", "", "", "")

Init ==
    /\ ecs_client = DefaultRegion
    /\ logs_client = DefaultRegion
    /\ title = ""
    /\ clusters = << Item("ListItem", "Clusters") >>
    /\ services = << Item("ListItem", "Services") >>
    /\ selected_cluster = None
    /\ selected_service = None
    /\ red_btn = [cluster |-> "", service |-> ""]
    /\ logs = << >>
    /\ pending = << Event("Mount", "", "", "") >>
    /\ alive = TRUE
    /\ last = [ev |-> NoEvent, raised |-> FALSE]
    /\ trace = << >>
    /\ caught = ""
    /\ task_definition = << >>
    /\ log_group_name = ""
    /\ listing = << >>

----------------------------------------------------------------------------
(* The operator: input events join the message queue *)

CanPost == alive /\ Len(pending) < MaxPending

\* the region of the newest region change still in the queue, "" if none
RECURSIVE RegionWaiting(_)
RegionWaiting(q) ==
    IF q = << >> THEN ""
    ELSE IF q[Len(q)].kind = "Select.Changed" THEN q[Len(q)].val
    ELSE RegionWaiting(SubSeq(q, 1, Len(q) - 1))

\* the operator picks a region in the Select
PostSelectChanged ==
    /\ CanPost
    /\ \E val \in RegionIds :
         pending' = Append(pending, Event("Select.Changed", "", val, RegionWaiting(pending)))
    /\ UNCHANGED <<ecs_client, logs_client, title, clusters, services,
                   selected_cluster, selected_service, red_btn, logs, alive,
                   last, trace, caught, task_definition, log_group_name,
                   listing>>

\* the operator selects an item shown in one of the two list views
PostListViewSelected ==
    /\ CanPost
    /\ \E item \in SeqRange(clusters) \cup SeqRange(services) :
         pending' = Append(pending, Event("ListView.Selected", item.cls, item.name, ""))
    /\ UNCHANGED <<ecs_client, logs_client, title, clusters, services,
                   selected_cluster, selected_service, red_btn, logs, alive,
                   last, trace, caught, task_definition, log_group_name,
                   listing>>

\* the operator clicks the Redeploy button
PostClick ==
    /\ CanPost
    /\ pending' = Append(pending, Event("Click", "", "", ""))
    /\ UNCHANGED <<ecs_client, logs_client, title, clusters, services,
                   selected_cluster, selected_service, red_btn, logs, alive,
                   last, trace, caught, task_definition, log_group_name,
                   listing>>

----------------------------------------------------------------------------
(* The handlers: the UI loop takes the oldest event and runs its handler    *)
(* to the end; an exception that escapes the handler ends the session.      *)

Handling(kind) == alive /\ pending # << >> /\ Head(pending).kind = kind

\* a handler without a try block catches nothing
NothingCaught == caught' = ""

\* a handler that does not run load_logs
NoLogLoad == NothingCaught /\ task_definition' = << >> /\ log_group_name' = ""

Handled(raised) ==
    /\ pending' = Tail(pending)
    /\ last' = [ev |-> Head(pending), raised |-> raised]
    /\ alive' = ~raised

\* App.on_mount
OnMount ==
    /\ Handling("Mount")
    /\ \E ok \in BOOLEAN :
         LET lc == LoadClusters(ecs_client, clusters, ok) IN
         /\ clusters' = lc.clusters
         /\ trace' = lc.trace
         /\ listing' = lc.listing
         /\ NoLogLoad
         /\ Handled(lc.raised)
    /\ UNCHANGED <<ecs_client, logs_client, title, services, selected_cluster,
                   selected_service, red_btn, logs>>

\* App.select_changed
SelectChanged ==
    /\ Handling("Select.Changed")
    /\ \E bind \in {"ok", "ecs_raises", "logs_raises"}, ok \in BOOLEAN :
         LET val == Head(pending).val
             b == BindClients(ecs_client, logs_client, val, bind)
             lc == LoadClusters(b.ecs, clusters, ok) IN
         /\ title' = val
         /\ ecs_client' = b.ecs
         /\ logs_client' = b.logs
         /\ clusters' = IF b.raised THEN clusters ELSE lc.clusters
         /\ trace' = IF b.raised THEN << >> ELSE lc.trace
         /\ listing' = IF b.raised THEN << >> ELSE lc.listing
         /\ NoLogLoad
         /\ Handled(b.raised \/ lc.raised)
    /\ UNCHANGED <<services, selected_cluster, selected_service, red_btn, logs>>

\* App.on_list_view_selected, the ECSClusterItem branch
SelectedCluster ==
    /\ Handling("ListView.Selected")
    /\ Head(pending).cls = "ECSClusterItem"
    /\ \E ok \in BOOLEAN :
         LET cluster_name == Head(pending).val
             ls == LoadServices(ecs_client, cluster_name, services, ok) IN
         /\ selected_cluster' = cluster_name
         /\ red_btn' = [red_btn EXCEPT !.cluster = cluster_name]
         /\ services' = ls.services
         /\ trace' = ls.trace
         /\ listing' = ls.listing
         /\ NoLogLoad
         /\ Handled(ls.raised)
    /\ UNCHANGED <<ecs_client, logs_client, title, clusters, selected_service, logs>>

\* App.on_list_view_selected, the ECSServiceItem branch
SelectedService ==
    /\ Handling("ListView.Selected")
    /\ Head(pending).cls = "ECSServiceItem"
    /\ \E o \in LogOracles :
         LET service_name == Head(pending).val
             ll == LoadLogs(ecs_client, logs_client, selected_cluster,
                            service_name, logs, o) IN
         /\ selected_service' = service_name
         /\ red_btn' = [red_btn EXCEPT !.service = service_name]
         /\ logs' = ll.logs
         /\ trace' = ll.trace
         /\ caught' = ll.caught
         /\ task_definition' = ll.defs
         /\ log_group_name' = ll.group
         /\ listing' = << >>
         /\ Handled(ll.raised)
    /\ UNCHANGED <<ecs_client, logs_client, title, clusters, services, selected_cluster>>

\* App.on_list_view_selected for the plain ListItem a list view starts with
SelectedOther ==
    /\ Handling("ListView.Selected")
    /\ Head(pending).cls \notin {"ECSClusterItem", "ECSServiceItem"}
    /\ trace' = << >>
    /\ listing' = << >>
    /\ NoLogLoad
    /\ Handled(FALSE)
    /\ UNCHANGED <<ecs_client, logs_client, title, clusters, services,
                   selected_cluster, selected_service, red_btn, logs>>

\* RedeploytBtn.on_click
OnClick ==
    /\ Handling("Click")
    /\ \E ok \in BOOLEAN :
         LET rd == Redeploy(ecs_client, red_btn, ok) IN
         /\ trace' = rd.trace
         /\ listing' = << >>
         /\ NoLogLoad
         /\ Handled(rd.raised)
    /\ UNCHANGED <<ecs_client, logs_client, title, clusters, services,
                   selected_cluster, selected_service, red_btn, logs>>

Next ==
    \/ PostSelectChanged
    \/ PostListViewSelected
    \/ PostClick
    \/ OnMount
    \/ SelectChanged
    \/ SelectedCluster
    \/ SelectedService
    \/ SelectedOther
    \/ OnClick

Spec == Init /\ [][Next]_vars

----------------------------------------------------------------------------
(* The resolver on its own: the loop of get_log_group_name applied to any   *)
(* task definition of up to MaxDefs container definitions.                  *)

\* the shapes a container definition takes for the loop
ContainerChoices ==
    { NoLogConfig,
      LogConfig("fluentd", "/ecs/x"),
      LogConfig("awslogs", "/ecs/a"),
      LogConfig("awslogs", "/ecs/b") }

TaskDefinitions == UNION { [1..n -> ContainerChoices] : n \in 0..MaxDefs }

InitResolve ==
    /\ ecs_client = DefaultRegion
    /\ logs_client = DefaultRegion
    /\ title = ""
    /\ clusters = << Item("ListItem", "Clusters") >>
    /\ services = << Item("ListItem", "Services") >>
    /\ selected_cluster = None
    /\ selected_service = None
    /\ red_btn = [cluster |-> "", service |-> ""]
    /\ logs = << >>
    /\ pending = << >>
    /\ alive = TRUE
    /\ last = [ev |-> NoEvent, raised |-> FALSE]
    /\ trace = << >>
    /\ caught = ""
    /\ task_definition \in TaskDefinitions
    /\ log_group_name = ""
    /\ listing = << >>

\* lines 133-140 of get_log_group_name on the task definition drawn
ResolveStep ==
    /\ last.ev.kind = "none"
    /\ log_group_name' = FindLogGroup(task_definition)
    /\ last' = [ev |-> Event("get_log_group_name", "", "", ""), raised |-> FALSE]
    /\ UNCHANGED <<ecs_client, logs_client, title, clusters, services,
                   selected_cluster, selected_service, red_btn, logs, pending,
                   alive, trace, caught, task_definition, listing>>

NextResolve == ResolveStep

SpecResolve == InitResolve /\ [][NextResolve]_vars

----------------------------------------------------------------------------
(* The identifier derivation on its own: a listing that returns one         *)
(* resource name of up to MaxPieces pieces is rendered into either list.    *)

\* a slash, or a slash-free run of characters
Pieces == {"/", "a", "b"}

ResourceNames == UNION { [1..n -> Pieces] : n \in 0..MaxPieces }

InitIdent ==
    /\ ecs_client = DefaultRegion
    /\ logs_client = DefaultRegion
    /\ title = ""
    /\ clusters = << Item("ListItem", "Clusters") >>
    /\ services = << Item("ListItem", "Services") >>
    /\ selected_cluster = None
    /\ selected_service = None
    /\ red_btn = [cluster |-> "", service |-> ""]
    /\ logs = << >>
    /\ pending = << >>
    /\ alive = TRUE
    /\ last = [ev |-> NoEvent, raised |-> FALSE]
    /\ trace = << >>
    /\ caught = ""
    /\ task_definition = << >>
    /\ log_group_name = ""
    /\ listing \in { <<name>> : name \in ResourceNames }

\* lines 87-90 of load_clusters on the listing drawn
RenderClusters ==
    /\ last.ev.kind = "none"
    /\ clusters' = ClusterItems(listing)
    /\ last' = [ev |-> Event("load_clusters", "", "", ""), raised |-> FALSE]
    /\ UNCHANGED <<ecs_client, logs_client, title, services, selected_cluster,
                   selected_service, red_btn, logs, pending, alive, trace, caught,
                   task_definition, log_group_name, listing>>

\* lines 97-100 of load_services on the listing drawn
RenderServices ==
    /\ last.ev.kind = "none"
    /\ services' = ServiceItems(listing)
    /\ last' = [ev |-> Event("load_services", "", "", ""), raised |-> FALSE]
    /\ UNCHANGED <<ecs_client, logs_client, title, clusters, selected_cluster,
                   selected_service, red_btn, logs, pending, alive, trace, caught,
                   task_definition, log_group_name, listing>>

NextIdent == RenderClusters \/ RenderServices

SpecIdent == InitIdent /\ [][NextIdent]_vars

----------------------------------------------------------------------------
(* Vocabulary of the properties *)

\* the names of the cluster entries shown in #clusters
ShownClusters == {clusters[i].name : i \in {j \in 1..Len(clusters) : clusters[j].cls = "ECSClusterItem"}}

\* the names of the service entries shown in #services
ShownServices == {services[i].name : i \in {j \in 1..Len(services) : services[j].cls = "ECSServiceItem"}}

\* the list #clusters shows exactly the listing of `region`
ShowsListingOf(region) ==
    clusters = [i \in 1..Len(ClusterArns(region)) |-> ECSClusterItem(Ident(ClusterArns(region)[i]))]

\* the last handler was `kind` and ran to its end without raising
Completed(kind) == last.ev.kind = kind /\ ~last.raised

\* the last handler issued request `op` as its final request and it raised
RequestRaised(op) ==
    /\ last.raised
    /\ trace # << >>
    /\ trace[Len(trace)].op = op

\* the last handler was a region change whose client construction raised
BindRaised == last.ev.kind = "Select.Changed" /\ last.raised /\ trace = << >>

----------------------------------------------------------------------------
(* C1: after a region change has been handled, the selected cluster, the    *)
(* selected service, the service list and the log view are cleared and the  *)
(* cluster list holds no entry of another region.                           *)
C1_RegionChangeClears ==
    Completed("Select.Changed") =>
        /\ selected_cluster = None
        /\ selected_service = None
        /\ ShownServices = {}
        /\ logs = << >>
        /\ ShownClusters \subseteq ClusterNames(ecs_client)

(* C2: right after a cluster selection has been handled, no service is      *)
(* selected and the log view is empty.                                      *)
C2_SelectClusterClears ==
    (Completed("ListView.Selected") /\ last.ev.cls = "ECSClusterItem") =>
        /\ selected_service = None
        /\ logs = << >>

(* C3: while the session runs, a selected cluster is an entry of the        *)
(* cluster list of the bound region, and a selected service implies a       *)
(* selected cluster whose service list holds it.                            *)
C3_SelectionConsistent ==
    alive =>
        /\ selected_cluster # None =>
              /\ selected_cluster \in ShownClusters
              /\ selected_cluster \in ClusterNames(ecs_client)
        /\ selected_service # None =>
              /\ selected_cluster # None
              /\ selected_service \in ServiceNames(ecs_client, selected_cluster)

(* C4: when a region change R2 was posted while a region change R1 was      *)
(* still waiting and R2's listing has completed, the cluster list is the    *)
(* listing of R2 and holds no cluster that only R1 has; and whenever a      *)
(* cluster listing has been applied, it was requested from the region that  *)
(* is bound now.                                                            *)
C4_LatestRegionWins ==
    /\ (Completed("Select.Changed") /\ last.ev.behind # "") =>
          /\ ecs_client = last.ev.val
          /\ ShowsListingOf(last.ev.val)
          /\ ShownClusters \cap ClusterNames(last.ev.behind) \subseteq ClusterNames(last.ev.val)
    /\ (Completed("Select.Changed") \/ Completed("Mount")) =>
          /\ trace = << Call("list_clusters", ecs_client, "", "", "") >>
          /\ ShowsListingOf(ecs_client)

\* R2 = us-east-1 was posted behind R1 = eu-west-1 and its listing is shown
C4_Witness ==
    /\ Completed("Select.Changed")
    /\ last.ev.behind = "eu-west-1"
    /\ last.ev.val = "us-east-1"
    /\ ShownClusters = {"api", "batch"}

(* C5: the two client handles are bound to the same region in every state.  *)
C5_HandlesSameRegion == ecs_client = logs_client

(* C6: when constructing a client fails during a region change, both        *)
(* handles stay bound together and the session continues.                   *)
C6_BindFailureKeepsBinding ==
    BindRaised => (alive /\ ecs_client = logs_client)

(* C7: when a cluster or service listing request fails, the session goes    *)
(* on and the list concerned is left empty.                                 *)
C7_ListingFailureEmptiesList ==
    /\ RequestRaised("list_clusters") => (alive /\ ShownClusters = {})
    /\ RequestRaised("list_services") => (alive /\ ShownServices = {})

(* C8: no forced-redeployment request names an empty cluster or an empty    *)
(* service.                                                                 *)
C8_RedeployNeedsSelection ==
    \A i \in 1..Len(trace) :
        trace[i].op = "update_service" =>
            (trace[i].cluster # "" /\ trace[i].service # "")

(* C9: a Redeploy click with a full selection issues exactly one            *)
(* update_service request through the bound client, and when that request   *)
(* fails the failure stays inside the handler: the session goes on and a    *)
(* message is shown.                                                        *)
C9_RedeployOnceAndReported ==
    (last.ev.kind = "Click" /\ Truthy(red_btn.cluster) /\ Truthy(red_btn.service)) =>
        /\ trace = << Call("update_service", ecs_client, red_btn.cluster, red_btn.service, "") >>
        /\ last.raised => (alive /\ logs # << >>)

(* C10: when a resolution step of the log pipeline fails, the session goes  *)
(* on and the log view shows a message.                                     *)
C10_ResolutionFailureDegrades ==
    (RequestRaised("describe_services") \/ RequestRaised("describe_task_definition")) =>
        (alive /\ logs # << >>)

\* a step of the UI loop: the oldest event is taken and its handler runs
HandlerStep == pending # << >> /\ pending' = Tail(pending)

(* C11: a handler run in which describe_log_streams or get_log_events       *)
(* fails catches the failure: the session goes on, the log view holds the   *)
(* one error message, and the cluster selection, both lists and both        *)
(* client handles are as before the run (the service selected is the one    *)
(* the event names).                                                        *)
C11_FetchFailureCaught ==
    [][(HandlerStep /\ caught' # "") =>
          /\ caught' \in {"describe_log_streams", "get_log_events"}
          /\ alive'
          /\ ~last'.raised
          /\ logs' = << "Error fetching logs: " \o caught' >>
          /\ selected_service' = Head(pending).val
          /\ selected_cluster' = selected_cluster
          /\ clusters' = clusters
          /\ services' = services
          /\ ecs_client' = ecs_client
          /\ logs_client' = logs_client]_vars

\* get_log_events failed while loading the logs of "front" and was caught
C11_Witness ==
    /\ caught = "get_log_events"
    /\ selected_service = "front"
    /\ logs = << "Error fetching logs: get_log_events" >>

\* the positions of the container definitions that use the awslogs driver
AwslogsAt(defs) ==
    {i \in 1..Len(defs) : defs[i].has /\ defs[i].logDriver = "awslogs"}

(* C12: once the resolver has scanned a task definition that has a          *)
(* container with the awslogs driver, its result is the log group of the    *)
(* matching container of least position, whatever precedes or follows it.   *)
C12_FirstAwslogsWins ==
    (last.ev.kind = "get_log_group_name" /\ AwslogsAt(task_definition) # {}) =>
        \E i \in AwslogsAt(task_definition) :
            /\ \A j \in AwslogsAt(task_definition) : i <= j
            /\ log_group_name = task_definition[i].group

\* a container without log configuration, one with another driver, then two
\* awslogs containers with different groups: the first group is returned
C12_Witness ==
    /\ last.ev.kind = "get_log_group_name"
    /\ task_definition = << NoLogConfig, LogConfig("fluentd", "/ecs/x"),
                            LogConfig("awslogs", "/ecs/b"), LogConfig("awslogs", "/ecs/a") >>
    /\ log_group_name = "/ecs/b"

\* the last handler ran get_log_group_name to its return statement
Resolved ==
    /\ Completed("ListView.Selected")
    /\ last.ev.cls = "ECSServiceItem"
    /\ Len(trace) >= 2
    /\ trace[2].op = "describe_task_definition"

\* the requests of the last handler with one of the given operations
CallsOf(ops) == {i \in 1..Len(trace) : trace[i].op \in ops}

(* C13: when the task definition resolved for the selected service has no   *)
(* container with the awslogs driver (or no container at all), the resolver *)
(* returns the empty name, the log view holds just the "Could not find log  *)
(* group" message, no describe_log_streams or get_log_events request was    *)
(* issued and the session goes on.                                          *)
C13_NoLogGroupMessage ==
    (Resolved /\ AwslogsAt(task_definition) = {}) =>
        /\ log_group_name = ""
        /\ logs = << "Could not find log group for this service." >>
        /\ CallsOf({"describe_log_streams", "get_log_events"}) = {}
        /\ caught = ""
        /\ alive

\* "worker" has a container without log configuration and a json-file one
C13_Witness ==
    /\ Resolved
    /\ last.ev.val = "worker"
    /\ Len(task_definition) = 2
    /\ AwslogsAt(task_definition) = {}
    /\ logs = << "Could not find log group for this service." >>

\* "job" has a task definition without container definitions
C13_WitnessNoContainers ==
    /\ Resolved
    /\ last.ev.val = "job"
    /\ task_definition = << >>
    /\ logs = << "Could not find log group for this service." >>

\* the last handler resolved a log group and its describe_log_streams answered
StreamsListed ==
    /\ Resolved
    /\ log_group_name # ""
    /\ CallsOf({"describe_log_streams"}) # {}
    /\ caught # "describe_log_streams"

(* C14: when the resolved log group has no stream, the log view holds just  *)
(* the "No log streams found" message, no get_log_events request was        *)
(* issued, nothing was raised or caught and the session goes on.            *)
C14_NoStreamsMessage ==
    (StreamsListed /\ LogStreams(logs_client, log_group_name) = << >>) =>
        /\ logs = << "No log streams found for this service." >>
        /\ CallsOf({"get_log_events"}) = {}
        /\ caught = ""
        /\ alive

\* the group of "site" exists in eu-west-1 and has no stream yet
C14_Witness ==
    /\ StreamsListed
    /\ last.ev.val = "site"
    /\ log_group_name = "/ecs/site"
    /\ LogStreams(logs_client, log_group_name) = << >>
    /\ logs = << "No log streams found for this service." >>

\* the last handler loaded log records: get_log_events answered
Fetched ==
    /\ StreamsListed
    /\ CallsOf({"get_log_events"}) # {}
    /\ caught = ""

\* the stream with the latest event in the resolved group
LatestStream == LogStreams(logs_client, log_group_name)[1]

(* C15: after a successful log load the log view holds the latest records   *)
(* of the most recently active stream of the resolved group and nothing     *)
(* else: at most 100 lines, the k-th line from the end being the k-th       *)
(* record from the end of that stream.                                      *)
C15_LatestRecordsShown ==
    Fetched =>
        LET all == StreamEvents(LatestStream) IN
        /\ Len(logs) <= 100
        /\ Len(logs) = (IF Len(all) < 100 THEN Len(all) ELSE 100)
        /\ \A k \in 1..Len(logs) : logs[k] = all[Len(all) - Len(logs) + k]

\* the latest stream of "front" holds 102 records: lines 3 to 102 are shown
C15_Witness ==
    /\ Fetched
    /\ last.ev.val = "front"
    /\ LatestStream = "front/2"
    /\ Len(logs) = 100
    /\ logs[1] = "line 003"
    /\ logs[100] = "line 102"

\* the position of the last slash of a resource name, 0 when it has none
LastSlash(arn) ==
    IF \E i \in 1..Len(arn) : arn[i] = "/"
    THEN CHOOSE i \in 1..Len(arn) :
             arn[i] = "/" /\ \A j \in (i + 1)..Len(arn) : arn[j] # "/"
    ELSE 0

\* the text a sequence of pieces spells
RECURSIVE Concat(_)
Concat(s) == IF s = << >> THEN "" ELSE Head(s) \o Concat(Tail(s))

\* the text of a resource name after its last slash; all of it without a slash
AfterLastSlash(arn) == Concat(SubSeq(arn, LastSlash(arn) + 1, Len(arn)))

(* C16: the entry rendered for a listed resource name carries exactly the   *)
(* text after the last "/" of the name, and the whole name when it has no   *)
(* "/", in the cluster list and in the service list alike.                  *)
C16_IdentIsLastSegment ==
    /\ last.ev.kind = "load_clusters" =>
          clusters = << ECSClusterItem(AfterLastSlash(listing[1])) >>
    /\ last.ev.kind = "load_services" =>
          services = << ECSServiceItem(AfterLastSlash(listing[1])) >>

\* the name b/b/a is rendered as the service entry "a"
C16_Witness ==
    /\ last.ev.kind = "load_services"
    /\ listing = << <<"b", "/", "b", "/", "a">> >>
    /\ services = << ECSServiceItem("a") >>

\* a name without slash is rendered whole
C16_WitnessNoSlash ==
    /\ last.ev.kind = "load_clusters"
    /\ listing = << <<"a", "b">> >>
    /\ clusters = << ECSClusterItem("ab") >>

\* the last handler took a cluster entry that #clusters does not show
StaleClusterHandled ==
    /\ last.ev.kind = "ListView.Selected"
    /\ last.ev.cls = "ECSClusterItem"
    /\ last.ev.val \notin ShownClusters

(* C17: handling a selection of a cluster entry that the cluster list no    *)
(* longer shows issues no list_services request and raises nothing.         *)
C17_StaleClusterIgnored ==
    StaleClusterHandled =>
        /\ CallsOf({"list_services"}) = {}
        /\ ~last.raised

(* C18: all requests of one log load go to the region the ecs handle was    *)
(* bound to when the handler started, also with a region change waiting in  *)
(* the queue.                                                               *)
C18_OneRegionPerLogLoad ==
    [][(HandlerStep /\ Head(pending).cls = "ECSServiceItem") =>
          \A i \in 1..Len(trace') : trace'[i].region = ecs_client]_vars

\* a full log load (four requests) ran while a region change to another
\* region was waiting, and every request went to the region bound then
C18_Witness ==
    /\ last.ev.cls = "ECSServiceItem"
    /\ Len(trace) = 4
    /\ pending # << >>
    /\ Head(pending).kind = "Select.Changed"
    /\ Head(pending).val # ecs_client
    /\ \A i \in 1..4 : trace[i].region = "us-east-1"

\* the last handler reloaded #clusters
ClustersReloaded == Completed("Mount") \/ Completed("Select.Changed")

\* the last handler reloaded #services
ServicesReloaded ==
    /\ Completed("ListView.Selected")
    /\ last.ev.cls = "ECSClusterItem"
    /\ CallsOf({"list_services"}) # {}

(* C19: after a successful reload the list holds one entry per name of the  *)
(* listing returned, in the order returned and named by the text after the  *)
(* last slash, and nothing else; an empty listing leaves the list empty     *)
(* and the session running.                                                 *)
C19_ReloadReplacesList ==
    /\ ClustersReloaded =>
          /\ Len(clusters) = Len(listing)
          /\ \A i \in 1..Len(listing) :
                 clusters[i] = ECSClusterItem(AfterLastSlash(listing[i]))
          /\ alive
    /\ ServicesReloaded =>
          /\ Len(services) = Len(listing)
          /\ \A i \in 1..Len(listing) :
                 services[i] = ECSServiceItem(AfterLastSlash(listing[i]))
          /\ alive

\* the one cluster of eu-west-1 replaced the entries shown before
C19_Witness ==
    /\ Completed("Select.Changed")
    /\ listing = ClusterArns("eu-west-1")
    /\ clusters = << ECSClusterItem("web") >>

\* cluster "batch" has no service: the list is empty and nothing was raised
C19_WitnessEmpty ==
    /\ ServicesReloaded
    /\ last.ev.val = "batch"
    /\ listing = << >>
    /\ services = << >>
    /\ alive

(* C20: every update_service request that names a cluster and a service     *)
(* names a service of that cluster in the region of the client used.        *)
C20_RedeployTargetConsistent ==
    \A i \in CallsOf({"update_service"}) :
        (trace[i].cluster # "" /\ trace[i].service # "") =>
            ServiceExists(trace[i].region, trace[i].cluster, trace[i].service)

====
